---- MODULE Spec2Model ----
(***************************************************************************)
(* PyVisca protocol engine: the serial transport (pyviscam/port.py) and    *)
(* the command / query handshakes of Camera (pyviscam/camera.py).          *)
(*                                                                         *)
(* Bytes are integers 0..255, a frame is a sequence of bytes.  Python's    *)
(* None and the empty string are both the empty sequence: _send_packet     *)
(* returns None for either.  The connection is opened with timeout=None    *)
(* (port.py:53), so port.read(1) blocks until a byte is there: a read step *)
(* is enabled only when the bytes it needs are on the line.                *)
(***************************************************************************)
EXTENDS Integers, Sequences, FiniteSets, TLC

\* ------------------------------------------------------------------ bounds
\* calls (commands and queries together) started in one behaviour
MaxCalls == 2
\* the interpreter's recursion limit, counted in frames of _query/_come_back
MaxDepth == 4
\* calls of each caller when two callers share the transport
CallsEach == 1
\* the recursion limit when two callers share the transport
DepthTwo == 3

\* bytes on the line above which the camera sends nothing unasked
MaxStale == 4
\* longest data handed to _send_packet directly
MaxData == 15
\* largest recipient handed to _send_packet directly
MaxRecipient == 9

\* ------------------------------------------------------- program constants
DefaultSpeed == 5
Terminator == 255
MaxPacket == 16

Callers == {1, 2}
None == <<>>
\* no decoded value
NoValue == [t |-> "none", n |-> 0, s |-> "", l |-> <<>>]

\* ------------------------------------------------------------ reply frames
Ack1 == <<144, 65, 255>>
Ack2 == <<144, 66, 255>>
Completion1 == <<144, 81, 255>>
Completion2 == <<144, 82, 255>>
SyntaxErrorFrame == <<144, 96, 2, 255>>
NotExecutable1 == <<144, 97, 65, 255>>
NotExecutable2 == <<144, 98, 65, 255>>
BufferFull == <<144, 96, 3, 255>>
QueryCompletionPrefix == <<144, 80>>

\* what the camera may put on the line (the environment)
CompletionWithPayload(payload) == QueryCompletionPrefix \o payload \o <<255>>
Payloads == {<<18>>, <<0, 14>>}
\* a completion with a 14 byte payload: 17 bytes, longer than one read takes
LongFrame == CompletionWithPayload(<<1, 2, 3, 4, 5, 6, 7, 8, 9, 10, 11, 12, 13, 14>>)

CmdScripts ==
    { <<Ack1, Completion1>>, <<Ack2, Completion2>>, <<Ack1, Completion2>>,
      <<SyntaxErrorFrame>>, <<NotExecutable1>>, <<NotExecutable2>>,
      <<BufferFull>>, <<LongFrame>> }
QueryScripts ==
    { <<BufferFull>>, <<SyntaxErrorFrame>>, <<Completion1>>, <<LongFrame>> }
      \cup { <<CompletionWithPayload(pl)>> : pl \in Payloads }

\* ------------------------------------------------------------------- state
VARIABLES
    port,      \* Serial.port: TRUE when a connection is set, FALSE for None
    mutex,     \* Serial.mutex: 0 when free, else the caller holding it
    line,      \* bytes buffered on the serial input, each tagged with the call it answers
    wire,      \* frames written to the camera and not yet answered
    camq,      \* frames the camera still has to send
    pc,        \* where each caller is inside its call
    kind,      \* "cmd" or "query": the call of each caller
    data,      \* the payload each caller's call sends (prefix+subcmd, or 09+code)
    reply,     \* the last value _send_packet returned to the call
    qdepth,    \* active frames of _query
    cdepth,    \* active frames of _come_back
    result,    \* how the call ended
    value,     \* the bytes _query handed to decoding
    writes,    \* frames written by the current call
    reads,     \* frames read as a reply by the current call
    hist,      \* the kinds of the replies the current call has read
    cur,       \* number of the current call of each caller
    calls,     \* calls started so far
    left,      \* calls each caller may still start
    limit,     \* the interpreter's recursion limit
    rcpt,      \* the recipient argument of each caller's _send_packet
    lastOpen,  \* how the last Serial.open ended: "none", "opened" or "failed"
    fn,        \* the property name each caller's _query was called with
    decoded,   \* what _query returns for a completion it decoded
    pan_speed, \* Camera._pan_speed
    tilt_speed, \* Camera._tilt_speed
    consumed   \* the last frame taken off the line: by which call, answering which call

vars == <<port, mutex, line, wire, camq, pc, kind, data, reply, qdepth, cdepth,
          result, value, writes, reads, hist, cur, calls, left, limit, rcpt,
          lastOpen, fn, decoded, pan_speed, tilt_speed, consumed>>

\* a slip: the recipient is not cut down to its three address bits
HeaderNoMask(recipient) ==
    LET sender == 0
        rbits == IF recipient = -1 THEN 8 ELSE recipient
        sbits == (sender % 8) * 16
    IN  128 + sbits + rbits

\* ---------------------------------------------------------- pure functions
\* Camera._send_packet, lines 52-63: header, data, terminator
Header(recipient) ==
    LET sender == 0
        rbits == IF recipient = -1 THEN 8 ELSE recipient % 8
        sbits == (sender % 8) * 16
    IN  128 + sbits + rbits

\* a slip: the data is cut to thirteen bytes
PacketTruncated(d, recipient) ==
    <<Header(recipient)>> \o SubSeq(d, 1, IF Len(d) < 13 THEN Len(d) ELSE 13) \o <<Terminator>>

\* Camera._send_packet, line 63: chr(header)+data+chr(terminator)
Packet(d, recipient) == <<Header(recipient)>> \o d \o <<Terminator>>

\* the header layout of the docstring of Camera._send_packet, read backwards:
\* 1 s2 s1 s0 0 r2 r1 r0, data, terminator
Parse(frame) ==
    [sender |-> (frame[1] \div 16) % 8,
     recipient |-> frame[1] % 8,
     payload |-> SubSeq(frame, 2, Len(frame) - 1)]

\* a slip: the loop runs once more than MaxPacket times
RECURSIVE recv_loop_inclusive(_, _, _)
recv_loop_inclusive(l, packet, count) ==
    IF count <= MaxPacket
    THEN IF l = <<>>
         THEN [packet |-> packet, rest |-> l, blocked |-> TRUE]
         ELSE IF Head(l).b = Terminator
              THEN [packet |-> Append(packet, Head(l)), rest |-> Tail(l), blocked |-> FALSE]
              ELSE recv_loop_inclusive(Tail(l), Append(packet, Head(l)), count + 1)
    ELSE [packet |-> packet, rest |-> l, blocked |-> FALSE]

\* Serial.recv_packet, lines 65-78: the read loop over the bytes of l.  Yields
\* the packet, the bytes left on the line, and whether the loop had to wait for
\* a byte that is not there.
RECURSIVE recv_loop(_, _, _)
recv_loop(l, packet, count) ==
    IF count < MaxPacket
    THEN IF l = <<>>
         THEN [packet |-> packet, rest |-> l, blocked |-> TRUE]
         ELSE IF Head(l).b = Terminator
              THEN [packet |-> Append(packet, Head(l)), rest |-> Tail(l), blocked |-> FALSE]
              ELSE recv_loop(Tail(l), Append(packet, Head(l)), count + 1)
    ELSE [packet |-> packet, rest |-> l, blocked |-> FALSE]

recv_packet(l) == recv_loop(l, <<>>, 0)

Bytes(packet) == [i \in 1..Len(packet) |-> packet[i].b]
Tagged(frame, t) == [i \in 1..Len(frame) |-> [b |-> frame[i], t |-> t]]

\* a slip: the terminator of the frame read is not looked at
SendPacketReplyUnchecked(raw) == IF raw # <<>> THEN raw ELSE None

\* Camera._send_packet, lines 67-75: the reply it returns for what was read
SendPacketReply(raw) ==
    IF raw # <<>>
    THEN IF raw[Len(raw)] # Terminator THEN None ELSE raw
    ELSE None

\* Camera._send_packet, lines 67-75: the mutex is released only on a non-empty read
SendPacketReleases(raw) == raw # <<>>

\* a slip: the completion is awaited after every reply but a syntax error
CmdReadsSecondUnlessSyntax(rep) == rep # None /\ rep # SyntaxErrorFrame

\* Camera._cmd_cam, lines 93-108: a second frame is read after an ack
CmdReadsSecond(rep) == rep = Ack1 \/ rep = Ack2

\* what the caller of the call gets: _cmd_cam_alt, lines 77-82, has no return
\* statement and so returns None whatever _cmd_cam returned
Returned(k, r) == IF k = "alt" THEN "None" ELSE r

\* Camera._cmd_cam, lines 93-120: the value returned
CmdResult(rep, second) ==
    IF rep = Ack1 THEN (IF second = Completion1 THEN "True" ELSE "None")
    ELSE IF rep = Ack2 THEN (IF second = Completion2 THEN "True" ELSE "None")
    ELSE IF rep = SyntaxErrorFrame THEN "False"
    ELSE IF rep = NotExecutable1 THEN "False"
    ELSE IF rep = NotExecutable2 THEN "False"
    ELSE "None"

StartsWith(s, prefix) ==
    Len(s) >= Len(prefix) /\ SubSeq(s, 1, Len(prefix)) = prefix

\* Camera._come_back, lines 130-143: the branch one activation takes
ComeBackCase(rep) ==
    IF rep = BufferFull THEN "again"
    ELSE IF rep = None THEN "AttributeError"
    ELSE IF StartsWith(rep, QueryCompletionPrefix) THEN "reply"
    ELSE IF rep = SyntaxErrorFrame THEN "False"
    ELSE "None"

\* Camera._come_back, line 134: the recursive call's value is dropped, so every
\* activation but the innermost returns None
ComeBackReturn(case, depth) == IF depth > 1 THEN "None" ELSE case

\* Camera._query, line 186: reply[2:-1]
StripReply(rep) == SubSeq(rep, 3, Len(rep) - 1)

\* the kind of a reply, in the protocol's words
Kind(rep) ==
    IF rep = None THEN "NoReply"
    ELSE IF rep = Ack1 THEN "Ack1"
    ELSE IF rep = Ack2 THEN "Ack2"
    ELSE IF rep = Completion1 THEN "Completion1"
    ELSE IF rep = Completion2 THEN "Completion2"
    ELSE IF rep = SyntaxErrorFrame THEN "SyntaxError"
    ELSE IF rep = NotExecutable1 THEN "NotExecutable1"
    ELSE IF rep = NotExecutable2 THEN "NotExecutable2"
    ELSE IF rep = BufferFull THEN "BufferFull"
    ELSE IF StartsWith(rep, QueryCompletionPrefix) THEN "Payload"
    ELSE "Other"

\* ------------------------------------------------------------------- Init
Start ==
    /\ port = FALSE
    /\ mutex = 0
    /\ line = <<>>
    /\ wire = <<>>
    /\ camq = <<>>
    /\ pc = [p \in Callers |-> "idle"]
    /\ kind = [p \in Callers |-> "none"]
    /\ data = [p \in Callers |-> <<>>]
    /\ reply = [p \in Callers |-> <<>>]
    /\ qdepth = [p \in Callers |-> 0]
    /\ cdepth = [p \in Callers |-> 0]
    /\ result = [p \in Callers |-> "pending"]
    /\ value = [p \in Callers |-> <<>>]
    /\ writes = [p \in Callers |-> 0]
    /\ reads = [p \in Callers |-> 0]
    /\ hist = [p \in Callers |-> <<>>]
    /\ cur = [p \in Callers |-> 0]
    /\ calls = 0
    /\ rcpt = [p \in Callers |-> 1]
    /\ lastOpen = "none"
    /\ fn = [p \in Callers |-> ""]
    /\ decoded = [p \in Callers |-> NoValue]
    /\ pan_speed = DefaultSpeed
    /\ tilt_speed = DefaultSpeed
    /\ consumed = [by |-> 0, of |-> 0, how |-> "none"]

\* one caller
Init ==
    /\ Start
    /\ left = [p \in Callers |-> IF p = 1 THEN MaxCalls ELSE 0]
    /\ limit = MaxDepth
\* one caller, one call
InitCodec ==
    /\ Start
    /\ left = [p \in Callers |-> IF p = 1 THEN 1 ELSE 0]
    /\ limit = MaxDepth
\* two callers, threads sharing one Camera and its Serial
InitTwo ==
    /\ Start
    /\ left = [p \in Callers |-> CallsEach]
    /\ limit = DepthTwo


\* ------------------------------------------------------------ the catalog
\* pyviscam.constants.queries: property name -> inquiry code (external data)
queries ==
    ("power" :> <<4, 0>>) @@ ("pan_tilt" :> <<6, 18>>) @@ ("WB" :> <<4, 53>>)
       @@ ("gamma" :> <<4, 91>>) @@ ("color_gain" :> <<4, 73>>)
       @@ ("color_hue" :> <<4, 79>>)

\* the property names callers ask for
Functions == {"", "power", "pan", "bogus"}
\* the subcommands callers send with the default prefix 01 04 (power on / off)
Subcmds == {<<0, 2>>}

\* a slip: pan and tilt are looked up under their own names
QueryNameUnmapped(function) == function

\* Camera._query, lines 158-161
QueryName(function) ==
    IF function = "pan" \/ function = "tilt" THEN "pan_tilt" ELSE function

\* Camera._query, lines 152-170: the call goes on to the transport
QueryKnown(function) ==
    function # "" /\ QueryName(function) \in DOMAIN queries

\* a slip: the inquiry byte 09 is left out
QueryDataNoInquiry(function) == queries[QueryName(function)]

\* Camera._query, line 172
QueryData(function) == <<9>> \o queries[QueryName(function)]

\* Camera._cmd_cam, line 91
CmdData(prefix, subcmd) == prefix \o subcmd

\* ------------------------------------------------------------- the decoder
\* what _query returns for a completion: an integer, a label, a number with a
\* unit behind it, a list of hex pairs, the two groups of a pan/tilt answer, or
\* the exception that ends the call instead
IntValue(n) == [t |-> "int", n |-> n, s |-> "", l |-> <<>>]
LabelValue(label) == [t |-> "label", n |-> 0, s |-> label, l |-> <<>>]
TextValue(n, suffix) == [t |-> "text", n |-> n, s |-> suffix, l |-> <<>>]
ListValue(groups) == [t |-> "list", n |-> 0, s |-> "", l |-> groups]
PairValue(groups) == [t |-> "pair", n |-> 0, s |-> "", l |-> groups]
Raised(exception) == [t |-> "raised", n |-> 0, s |-> exception, l |-> <<>>]

\* str.encode('hex'), line 186: two hex digits for every byte
EncodeHex(bytes) ==
    [i \in 1..(2 * Len(bytes)) |->
        IF i % 2 = 1 THEN bytes[(i + 1) \div 2] \div 16 ELSE bytes[i \div 2] % 16]

\* a slip: the digits are read in base ten
RECURSIVE Int16Decimal(_)
Int16Decimal(digits) ==
    IF digits = <<>> THEN 0
    ELSE 10 * Int16Decimal(SubSeq(digits, 1, Len(digits) - 1)) + digits[Len(digits)]

\* int(digits, 16), lines 201 and 216
RECURSIVE Int16(_)
Int16(digits) ==
    IF digits = <<>> THEN 0
    ELSE 16 * Int16(SubSeq(digits, 1, Len(digits) - 1)) + digits[Len(digits)]

\* hex_unpack, lines 189-195: the list after the call
RECURSIVE hex_unpack_list(_, _)
hex_unpack_list(digits, listt) ==
    LET part == SubSeq(digits, 1, IF Len(digits) < 2 THEN Len(digits) ELSE 2)
        rest == SubSeq(digits, Len(part) + 1, Len(digits))
    IN  IF rest # <<>> THEN hex_unpack_list(rest, Append(listt, part))
        ELSE Append(listt, part)

\* hex_unpack, lines 189-195: the value returned, the list only when digits
\* are left after the first pair
hex_unpack(digits, listt) ==
    IF Len(digits) > 2 THEN ListValue(hex_unpack_list(digits, listt)) ELSE NoValue

\* Camera._query, lines 196-201: a list for a long answer, an integer for one byte
Unpack(digits) ==
    IF Len(digits) > 2 THEN hex_unpack(digits, <<>>)
    ELSE IF digits = <<>> THEN Raised("ValueError")
    ELSE IntValue(Int16(digits))

\* pyviscam.constants.answers: property name -> code -> label (external data)
answers ==
    ("power" :> ((2 :> "on") @@ (3 :> "off")))
       @@ ("WB" :> ((0 :> "auto") @@ (1 :> "indoor") @@ (2 :> "outdoor")))

\* pyviscam.convert.scale: linear map of in_min..in_max onto out_min..out_max
scale(v, in_min, in_max, out_min, out_max) ==
    out_min + ((v - in_min) * (out_max - out_min)) \div (in_max - in_min)

\* a Python slice l[a:b] of a list, positions counted from 1 here
Slice(l, a, b) == SubSeq(l, a, IF b < Len(l) THEN b ELSE Len(l))

\* a slip: the third group is taken
ScaledThirdGroup(function, v) ==
    IF v.t # "list" THEN Raised("TypeError")
    ELSE IF Len(v.l) < 3 THEN Raised("IndexError")
    ELSE TextValue(scale(Int16(v.l[3]), 0, 14, 60, 200),
                   IF function = "color_gain" THEN "%" ELSE "deg")

\* Camera._query, lines 215-221: the fourth group, rescaled, with its unit
Scaled(function, v) ==
    IF v.t # "list" THEN Raised("TypeError")
    ELSE IF Len(v.l) < 4 THEN Raised("IndexError")
    ELSE TextValue(scale(Int16(v.l[4]), 0, 14, 60, 200),
                   IF function = "color_gain" THEN "%" ELSE "deg")

\* a slip: the table is asked with get, a code it does not hold gives None
TranslateGet(function, v) ==
    IF function \in DOMAIN answers
    THEN IF v.t = "list" THEN Raised("TypeError")
         ELSE IF v.n \in DOMAIN answers[function]
         THEN LabelValue(answers[function][v.n])
         ELSE NoValue
    ELSE v

\* Camera._query, lines 208-228: the translation of the unpacked answer.  A list
\* is no key of a table, and an integer has no groups to pick from.  The groups
\* of a pan/tilt answer go on to hex_to_int and visca_to_degree.
Translate(function, v) ==
    IF function \in DOMAIN answers
    THEN IF v.t = "list" THEN Raised("TypeError")
         ELSE IF v.n \in DOMAIN answers[function]
         THEN LabelValue(answers[function][v.n])
         ELSE v
    ELSE IF function \in {"NR", "gamma", "chromasuppress"} THEN v
    ELSE IF function \in {"color_gain", "color_hue"} THEN Scaled(function, v)
    ELSE IF function = "pan_tilt"
    THEN IF v.t # "list" THEN Raised("TypeError")
         ELSE PairValue(<<Slice(v.l, 1, 4), Slice(v.l, 5, 8)>>)
    ELSE v

\* Camera._query, lines 186-232: the value returned for the bytes of a
\* completion.  No property of the catalog below is a high resolution one, so
\* lines 202-207 are not entered.
Decode(function, payload) ==
    LET first == Unpack(EncodeHex(payload))
    IN  IF first.t = "raised" THEN first ELSE Translate(QueryName(function), first)

\* ---------------------------------------------------------------- actions
Fresh(p, res) ==
    /\ reply' = [reply EXCEPT ![p] = <<>>]
    /\ result' = [result EXCEPT ![p] = res]
    /\ value' = [value EXCEPT ![p] = <<>>]
    /\ decoded' = [decoded EXCEPT ![p] = NoValue]
    /\ writes' = [writes EXCEPT ![p] = 0]
    /\ reads' = [reads EXCEPT ![p] = 0]
    /\ hist' = [hist EXCEPT ![p] = <<>>]
    /\ calls' = calls + 1
    /\ left' = [left EXCEPT ![p] = @ - 1]
    /\ cur' = [cur EXCEPT ![p] = calls + 1]

\* Serial.open, lines 51-59: the connection after the call
OpenPort(ok) == IF port THEN port ELSE ok

\* a slip: the mutex is released only when the device was opened
OpenMutexHeldOnFailure(ok) == IF port \/ ok THEN 0 ELSE 3

\* Serial.open, lines 49 and 60: the mutex after the call (0: released)
OpenMutex(ok) == 0

\* Serial.open: the mutex is held for the whole call, so the call is one step
Open(ok) ==
    /\ mutex = 0
    /\ port' = OpenPort(ok)
    /\ mutex' = OpenMutex(ok)
    /\ line' = IF ~port /\ ok THEN <<>> ELSE line
    /\ lastOpen' = IF OpenPort(ok) THEN "opened" ELSE "failed"
    /\ UNCHANGED <<wire, camq, pc, kind, fn, data, reply, qdepth, cdepth, result, value,
                   decoded, writes, reads, hist, cur, calls, left, limit, pan_speed,
                   tilt_speed, rcpt, consumed>>

\* a caller enters Camera._cmd_cam: the packet is built, _send_packet is entered
CmdCam(p, subcmd) ==
    /\ pc[p] \in {"idle", "done"}
    /\ left[p] > 0
    /\ Fresh(p, "pending")
    /\ kind' = [kind EXCEPT ![p] = "cmd"]
    /\ fn' = [fn EXCEPT ![p] = ""]
    /\ data' = [data EXCEPT ![p] = CmdData(<<1, 4>>, subcmd)]
    /\ qdepth' = [qdepth EXCEPT ![p] = 0]
    /\ cdepth' = [cdepth EXCEPT ![p] = 0]
    /\ pc' = [pc EXCEPT ![p] = "acquire"]
    /\ UNCHANGED <<port, mutex, line, wire, camq, limit, pan_speed, tilt_speed, rcpt,
                   lastOpen, consumed>>

\* a caller enters Camera._cmd_cam_alt: _cmd_cam with the prefix 01 06
CmdCamAlt(p, subcmd) ==
    /\ pc[p] \in {"idle", "done"}
    /\ left[p] > 0
    /\ Fresh(p, "pending")
    /\ kind' = [kind EXCEPT ![p] = "alt"]
    /\ fn' = [fn EXCEPT ![p] = ""]
    /\ data' = [data EXCEPT ![p] = CmdData(<<1, 6>>, subcmd)]
    /\ qdepth' = [qdepth EXCEPT ![p] = 0]
    /\ cdepth' = [cdepth EXCEPT ![p] = 0]
    /\ pc' = [pc EXCEPT ![p] = "acquire"]
    /\ UNCHANGED <<port, mutex, line, wire, camq, limit, pan_speed, tilt_speed, rcpt,
                   lastOpen, consumed>>

\* a slip: the speeds the camera object starts with are sent
PtdSubcmdDefault(lr, ud) == <<1, DefaultSpeed, DefaultSpeed, lr, ud>>

\* Camera._cmd_ptd, line 1059: the subcommand of a movement
PtdSubcmd(lr, ud) == <<1, pan_speed, tilt_speed, lr, ud>>

\* up, down, left, right, the diagonals and stop: _cmd_ptd(lr, ud)
Directions == {1, 2, 3}
CmdPtd(p, lr, ud) == CmdCamAlt(p, PtdSubcmd(lr, ud))

\* home, line 1162, and reset, line 1168
AltSubcmds == {<<4>>, <<5>>}

\* the speeds callers store
Speeds == {1, 24}

\* the pan_speed setter, lines 1065-1067
SetPanSpeed(speed) ==
    /\ pan_speed' = speed
    /\ UNCHANGED <<port, mutex, line, wire, camq, pc, kind, fn, data, reply, qdepth,
                   cdepth, result, value, decoded, writes, reads, hist, cur, calls,
                   left, limit, tilt_speed, rcpt, lastOpen, consumed>>

\* the tilt_speed setter, lines 1072-1074
SetTiltSpeed(speed) ==
    /\ tilt_speed' = speed
    /\ UNCHANGED <<port, mutex, line, wire, camq, pc, kind, fn, data, reply, qdepth,
                   cdepth, result, value, decoded, writes, reads, hist, cur, calls,
                   left, limit, pan_speed, rcpt, lastOpen, consumed>>

\* a caller enters Camera._query: unknown names return False at once
Query(p, function) ==
    /\ pc[p] \in {"idle", "done"}
    /\ left[p] > 0
    /\ kind' = [kind EXCEPT ![p] = "query"]
    /\ fn' = [fn EXCEPT ![p] = function]
    /\ IF QueryKnown(function)
       THEN /\ Fresh(p, "pending")
            /\ data' = [data EXCEPT ![p] = QueryData(function)]
            /\ qdepth' = [qdepth EXCEPT ![p] = 1]
            /\ cdepth' = [cdepth EXCEPT ![p] = 1]
            /\ pc' = [pc EXCEPT ![p] = "acquire"]
       ELSE /\ Fresh(p, "False")
            /\ data' = [data EXCEPT ![p] = <<>>]
            /\ qdepth' = [qdepth EXCEPT ![p] = 0]
            /\ cdepth' = [cdepth EXCEPT ![p] = 0]
            /\ pc' = [pc EXCEPT ![p] = "done"]
    /\ UNCHANGED <<port, mutex, line, wire, camq, limit, pan_speed, tilt_speed, rcpt,
                   lastOpen, consumed>>

\* the arguments of a direct call of Camera._send_packet(data, recipient):
\* data of every length up to MaxData, one byte of it differing from the rest
ByteSamples == {0, 9, 255}
Fill(n, k, x, y) == [i \in 1..n |-> IF i = k THEN y ELSE x]
Datas == { Fill(n, k, x, y) : n \in 0..MaxData, k \in 0..MaxData, x \in ByteSamples,
                              y \in ByteSamples }
Recipients == -2..MaxRecipient

\* a caller enters Camera._send_packet with its own data and recipient
SendPacket(p) ==
    /\ pc[p] \in {"idle", "done"}
    /\ left[p] > 0
    /\ Fresh(p, "pending")
    /\ kind' = [kind EXCEPT ![p] = "raw"]
    /\ fn' = [fn EXCEPT ![p] = ""]
    /\ \E d \in Datas : data' = [data EXCEPT ![p] = d]
    /\ \E recipient \in Recipients : rcpt' = [rcpt EXCEPT ![p] = recipient]
    /\ qdepth' = [qdepth EXCEPT ![p] = 0]
    /\ cdepth' = [cdepth EXCEPT ![p] = 0]
    /\ pc' = [pc EXCEPT ![p] = "acquire"]
    /\ UNCHANGED <<port, mutex, line, wire, camq, limit, pan_speed, tilt_speed, lastOpen,
                   consumed>>

\* Camera._send_packet, line 64: mutex.acquire()
Acquire(p) ==
    /\ pc[p] = "acquire"
    /\ mutex = 0
    /\ mutex' = p
    /\ pc' = [pc EXCEPT ![p] = "write"]
    /\ UNCHANGED <<port, line, wire, camq, kind, fn, data, reply, qdepth, cdepth, result,
                   value, decoded, writes, reads, hist, cur, calls, left, limit,
                   pan_speed, tilt_speed, rcpt, lastOpen, consumed>>

\* Serial._write_packet: one waiting frame is read and dropped, then the packet
\* is written; without a connection nothing happens
WritePacket(p) ==
    /\ pc[p] = "write"
    /\ IF port
       THEN LET r == recv_packet(line)
                drain == line # <<>>
            IN  /\ drain => ~r.blocked
                /\ line' = IF drain THEN r.rest ELSE line
                /\ consumed' = IF drain
                               THEN [by |-> cur[p], of |-> r.packet[1].t, how |-> "drain"]
                               ELSE consumed
                /\ wire' = Append(wire, [t |-> cur[p], pkt |-> Packet(data[p], rcpt[p])])
                /\ writes' = [writes EXCEPT ![p] = @ + 1]
       ELSE UNCHANGED <<line, consumed, wire, writes>>
    /\ pc' = [pc EXCEPT ![p] = "recv"]
    /\ UNCHANGED <<port, mutex, camq, kind, fn, data, reply, qdepth, cdepth, result, value,
                   decoded, reads, hist, cur, calls, left, limit, pan_speed,
                   tilt_speed, rcpt, lastOpen>>

\* what Camera._cmd_cam does with the reply of _send_packet: wait for the
\* completion after an ack, return otherwise
CmdCamReply(p, rep) ==
    /\ reply' = [reply EXCEPT ![p] = rep]
    /\ IF CmdReadsSecond(rep)
       THEN /\ pc' = [pc EXCEPT ![p] = "recv2"]
            /\ UNCHANGED result
       ELSE /\ pc' = [pc EXCEPT ![p] = "done"]
            /\ result' = [result EXCEPT ![p] = Returned(kind[p], CmdResult(rep, None))]
    /\ UNCHANGED <<value, decoded, qdepth, cdepth>>

\* what Camera._come_back and Camera._query do with the reply of _send_packet.
\* Both retries are recursive calls: _come_back calls itself on BufferFull, and
\* _query calls itself when _come_back returned None.  A call that would make
\* the stack deeper than the interpreter's limit aborts the whole call with an
\* unhandled error instead.
QueryReply(p, rep) ==
    LET case == ComeBackCase(rep)
        ret == ComeBackReturn(case, cdepth[p])
        end(res, val) ==
            /\ pc' = [pc EXCEPT ![p] = "done"]
            /\ result' = [result EXCEPT ![p] = res]
            /\ value' = [value EXCEPT ![p] = val]
            /\ decoded' = [decoded EXCEPT ![p] =
                               IF res = "value" THEN Decode(fn[p], val) ELSE NoValue]
            /\ UNCHANGED <<qdepth, cdepth>>
    IN  /\ reply' = [reply EXCEPT ![p] = rep]
        /\ IF case = "AttributeError" THEN end("AttributeError", <<>>)
           ELSE IF case = "again"
           THEN IF qdepth[p] + cdepth[p] + 1 > limit
                THEN end("RecursionLimit", <<>>)
                ELSE /\ cdepth' = [cdepth EXCEPT ![p] = @ + 1]
                     /\ pc' = [pc EXCEPT ![p] = "acquire"]
                     /\ UNCHANGED <<qdepth, result, value, decoded>>
           ELSE IF ret = "reply" THEN end("value", StripReply(rep))
           ELSE IF ret = "False" THEN end("None", <<>>)
           ELSE IF qdepth[p] + 2 > limit
                THEN end("RecursionLimit", <<>>)
                ELSE /\ qdepth' = [qdepth EXCEPT ![p] = @ + 1]
                     /\ cdepth' = [cdepth EXCEPT ![p] = 1]
                     /\ pc' = [pc EXCEPT ![p] = "acquire"]
                     /\ UNCHANGED <<result, value, decoded>>

\* Camera._send_packet, lines 73-75, called on its own: the reply is returned
SendPacketReturn(p, rep) ==
    /\ reply' = [reply EXCEPT ![p] = rep]
    /\ pc' = [pc EXCEPT ![p] = "done"]
    /\ result' = [result EXCEPT ![p] = "returned"]
    /\ UNCHANGED <<value, decoded, qdepth, cdepth>>

\* Camera._send_packet, lines 66-75, and the caller's code up to its next read
RecvReply(p) ==
    /\ pc[p] = "recv"
    /\ LET r == recv_packet(line)
           raw == IF port THEN Bytes(r.packet) ELSE <<>>
           rep == SendPacketReply(raw)
       IN  /\ port => ~r.blocked
           /\ line' = IF port THEN r.rest ELSE line
           /\ consumed' = IF port
                          THEN [by |-> cur[p], of |-> r.packet[1].t, how |-> "reply"]
                          ELSE consumed
           /\ mutex' = IF SendPacketReleases(raw) THEN 0 ELSE mutex
           /\ reads' = [reads EXCEPT ![p] = @ + 1]
           /\ hist' = [hist EXCEPT ![p] = Append(@, Kind(rep))]
           /\ IF kind[p] \in {"cmd", "alt"} THEN CmdCamReply(p, rep)
              ELSE IF kind[p] = "query" THEN QueryReply(p, rep)
              ELSE SendPacketReturn(p, rep)
    /\ UNCHANGED <<port, wire, camq, kind, fn, data, writes, cur, calls, left, limit,
                   pan_speed, tilt_speed, rcpt, lastOpen>>

\* Camera._cmd_cam, lines 96-100 and 104-108: the second recv_packet
RecvCompletion(p) ==
    /\ pc[p] = "recv2"
    /\ LET r == recv_packet(line)
           second == Bytes(r.packet)
       IN  /\ ~r.blocked
           /\ line' = r.rest
           /\ consumed' = [by |-> cur[p], of |-> r.packet[1].t, how |-> "reply"]
           /\ reads' = [reads EXCEPT ![p] = @ + 1]
           /\ hist' = [hist EXCEPT ![p] = Append(@, Kind(second))]
           /\ result' = [result EXCEPT ![p] = Returned(kind[p], CmdResult(reply[p], second))]
           /\ pc' = [pc EXCEPT ![p] = "done"]
    /\ UNCHANGED <<port, mutex, wire, camq, kind, fn, data, reply, qdepth, cdepth, value,
                   decoded, writes, cur, calls, left, limit, pan_speed, tilt_speed,
                   rcpt, lastOpen>>

\* the camera answers the oldest request: the first frame of the answer goes on
\* the line, the rest is sent later
IsQuery(pkt) == pkt[2] = 9

CameraReply(script) ==
    /\ wire # <<>>
    /\ script \in (IF IsQuery(Head(wire).pkt) THEN QueryScripts ELSE CmdScripts)
    /\ wire' = Tail(wire)
    /\ line' = line \o Tagged(Head(script), Head(wire).t)
    /\ camq' = camq \o [i \in 1..(Len(script) - 1) |->
                           [t |-> Head(wire).t, frame |-> script[i + 1]]]
    /\ UNCHANGED <<port, mutex, pc, kind, fn, data, reply, qdepth, cdepth, result, value,
                   decoded, writes, reads, hist, cur, calls, left, limit, pan_speed,
                   tilt_speed, rcpt, lastOpen, consumed>>

CameraSend ==
    /\ camq # <<>>
    /\ camq' = Tail(camq)
    /\ line' = line \o Tagged(Head(camq).frame, Head(camq).t)
    /\ UNCHANGED <<port, mutex, wire, pc, kind, fn, data, reply, qdepth, cdepth, result,
                   value, decoded, writes, reads, hist, cur, calls, left, limit,
                   pan_speed, tilt_speed, rcpt, lastOpen, consumed>>

\* the bus hands a written frame back to the controller unchanged, as the
\* daisy chain does with a frame no camera takes
Echo ==
    /\ wire # <<>>
    /\ wire' = Tail(wire)
    /\ line' = line \o Tagged(Head(wire).pkt, Head(wire).t)
    /\ UNCHANGED <<port, mutex, camq, pc, kind, fn, data, reply, qdepth, cdepth, result,
                   value, decoded, writes, reads, hist, cur, calls, left, limit,
                   pan_speed, tilt_speed, rcpt, lastOpen, consumed>>

Next ==
    \/ \E ok \in BOOLEAN : Open(ok)
    \/ \E p \in Callers, subcmd \in Subcmds : CmdCam(p, subcmd)
    \/ \E p \in Callers, function \in Functions : Query(p, function)
    \/ \E p \in Callers : Acquire(p)
    \/ \E p \in Callers : WritePacket(p)
    \/ \E p \in Callers : RecvReply(p)
    \/ \E p \in Callers : RecvCompletion(p)
    \/ \E script \in CmdScripts \cup QueryScripts : CameraReply(script)
    \/ CameraSend

Spec == Init /\ [][Next]_vars
SpecTwo == InitTwo /\ [][Next]_vars

\* one direct call of _send_packet on a bus that echoes the frame
NextCodec ==
    \/ \E ok \in BOOLEAN : Open(ok)
    \/ SendPacket(1)
    \/ Acquire(1)
    \/ WritePacket(1)
    \/ Echo
    \/ RecvReply(1)

SpecCodec == InitCodec /\ [][NextCodec]_vars

\* the camera sends a frame nobody asked for (a network change, z0 38 FF)
NetworkChange == <<144, 56, 255>>
CameraUnsolicited ==
    /\ port
    /\ Len(line) < MaxStale
    /\ line' = line \o Tagged(NetworkChange, 0)
    /\ UNCHANGED <<port, mutex, wire, camq, pc, kind, fn, data, reply, qdepth, cdepth,
                   result, value, decoded, writes, reads, hist, cur, calls, left,
                   limit, pan_speed, tilt_speed, rcpt, lastOpen, consumed>>

\* the program on a line that also carries frames sent unasked
NextStale == Next \/ CameraUnsolicited

\* one caller, one call
InitStale ==
    /\ Start
    /\ left = [p \in Callers |-> IF p = 1 THEN CallsEach ELSE 0]
    /\ limit = DepthTwo

SpecStale == InitStale /\ [][NextStale]_vars

\* the properties asked for and the payloads answered when decoding is looked at
DecodeFunctions == {"power", "WB", "gamma", "color_gain", "color_hue", "tilt"}
DecodePayloads ==
    { <<>>, <<0>>, <<1>>, <<2>>, <<200>>, <<0, 14>>,
      <<0, 0, 0, 0>>, <<0, 0, 0, 7>>, <<0, 0, 0, 14>> }

\* the camera answers a query with a completion carrying a payload
CameraAnswer(payload) ==
    /\ wire # <<>>
    /\ IsQuery(Head(wire).pkt)
    /\ wire' = Tail(wire)
    /\ line' = line \o Tagged(CompletionWithPayload(payload), Head(wire).t)
    /\ UNCHANGED <<port, mutex, camq, pc, kind, fn, data, reply, qdepth, cdepth, result,
                   value, decoded, writes, reads, hist, cur, calls, left, limit,
                   pan_speed, tilt_speed, rcpt, lastOpen, consumed>>

\* one query by one caller, answered at once
NextDecode ==
    \/ \E ok \in BOOLEAN : Open(ok)
    \/ \E function \in DecodeFunctions : Query(1, function)
    \/ Acquire(1)
    \/ WritePacket(1)
    \/ \E payload \in DecodePayloads : CameraAnswer(payload)
    \/ RecvReply(1)

SpecDecode == InitCodec /\ [][NextDecode]_vars

\* the program with the pan/tilt commands and the speed setters
NextMove ==
    \/ Next
    \/ \E p \in Callers, subcmd \in AltSubcmds : CmdCamAlt(p, subcmd)
    \/ \E p \in Callers, lr \in Directions, ud \in Directions : CmdPtd(p, lr, ud)
    \/ \E speed \in Speeds : SetPanSpeed(speed)
    \/ \E speed \in Speeds : SetTiltSpeed(speed)

SpecMove == Init /\ [][NextMove]_vars

\* the steps of a caller's thread
Step(p) == Acquire(p) \/ WritePacket(p) \/ RecvReply(p) \/ RecvCompletion(p)

\* every thread keeps running; nothing obliges the camera to send
SpecFair == Init /\ [][Next]_vars /\ WF_vars(Step(1)) /\ WF_vars(Step(2))


\* ------------------------------------------------------------- properties
Last(h) == h[Len(h)]
InCall(p) == pc[p] \in {"acquire", "write", "recv", "recv2"}
Cmd(p) == kind[p] = "cmd" /\ hist[p] # <<>>
Qry(p) == kind[p] = "query" /\ hist[p] # <<>>
\* the results that tell the caller of a failure in so many words
ExplicitFailures == {"False", "UnexpectedReply", "MalformedReply", "Exhausted"}
ErrorKinds == {"SyntaxError", "NotExecutable1", "NotExecutable2"}
HandledFirstKinds == {"Ack1", "Ack2"} \cup ErrorKinds

\* C1: a command whose first reply is an Ack holds the transport lock from its
\* write until its completion frame has been read: no caller waits for its
\* completion frame while the lock is not its own.
C1_LockHeldUntilCompletion ==
    \A p \in Callers : pc[p] = "recv2" => mutex = p

\* C2: with two callers on one transport every reply frame is taken off the line
\* by the call it answers: a frame that answers a call still in progress is never
\* read as a reply, nor drained before a write, by another call.
C2_RepliesReachTheirCaller ==
    \A q \in Callers :
        (InCall(q) /\ consumed.of = cur[q]) => consumed.by = cur[q]

\* C3: a command returns success exactly after Ack(n), Completion(n) for the
\* same socket n, and the mismatched Ack(1), Completion(2) ends in an explicit
\* failure result.
C3_HandshakePairing ==
    \A p \in Callers :
        (Cmd(p) /\ pc[p] = "done") =>
            /\ (result[p] = "True") <=>
                   hist[p] \in {<<"Ack1", "Completion1">>, <<"Ack2", "Completion2">>}
            /\ hist[p] = <<"Ack1", "Completion2">> => result[p] \in ExplicitFailures

\* C4: when the first reply to a command is SyntaxError or NotExecutable(1|2)
\* the call has ended with False, having read that one frame and written its
\* one frame: no second read, no second write.
C4_ErrorReplyEndsCommand ==
    \A p \in Callers :
        (Cmd(p) /\ hist[p][1] \in ErrorKinds) =>
            /\ pc[p] = "done"
            /\ result[p] = "False"
            /\ reads[p] = 1
            /\ writes[p] = 1

C4_Witness ==
    \E p \in Callers :
        /\ Cmd(p) /\ hist[p] = <<"NotExecutable2">>
        /\ pc[p] = "done" /\ result[p] = "False" /\ writes[p] = 1

\* C5: when the first reply to a command is unrecognised, unterminated or
\* missing, the call ends in Failed, an explicit failure result, and has
\* written its frame exactly once.
C5_MalformedReplyFails ==
    \A p \in Callers :
        (Cmd(p) /\ port /\ hist[p][1] \notin HandledFirstKinds) =>
            /\ pc[p] = "done"
            /\ result[p] \in ExplicitFailures
            /\ writes[p] = 1

\* C6: a query answered BufferFull, BufferFull, CompletionWithPayload(p) ends in
\* success with payload p after exactly three transmissions.
C6_RetryThenSuccess ==
    \A p \in Callers :
        (Qry(p) /\ Len(hist[p]) >= 3
                /\ SubSeq(hist[p], 1, 3) = <<"BufferFull", "BufferFull", "Payload">>) =>
            /\ pc[p] = "done"
            /\ result[p] = "value"
            /\ value[p] \in Payloads
            /\ writes[p] = 3

\* C7: a query answered BufferFull every time ends with the terminal failure
\* Exhausted.
C7_BufferFullExhausts ==
    \A p \in Callers :
        (Qry(p) /\ pc[p] = "done" /\ \A i \in 1..Len(hist[p]) : hist[p][i] = "BufferFull") =>
            result[p] = "Exhausted"

\* C8: when the reply to a query is a completion-with-payload frame the query
\* has succeeded, and the bytes handed to decoding are the frame without its
\* first two bytes and without its terminator.
C8_PayloadHandedToDecoding ==
    \A p \in Callers :
        (Qry(p) /\ Last(hist[p]) = "Payload") =>
            /\ pc[p] = "done"
            /\ result[p] = "value"
            /\ <<144, 80>> \o value[p] \o <<255>> = reply[p]

\* C9: when the reply to a query is SyntaxError the query has ended with a
\* result that is no successful result, and nothing was transmitted after it.
C9_SyntaxErrorEndsQuery ==
    \A p \in Callers :
        (Qry(p) /\ Last(hist[p]) = "SyntaxError") =>
            /\ pc[p] = "done"
            /\ result[p] \notin {"value", "pending"}
            /\ writes[p] = Len(hist[p])

\* C10: when the reply to a query is missing or not terminated by 0xFF, the
\* query is re-issued; the call does not end in an unhandled error.
C10_NoAnswerReissues ==
    \A p \in Callers :
        (Qry(p) /\ port /\ Last(hist[p]) = "NoReply") =>
            /\ result[p] # "AttributeError"
            /\ pc[p] = "acquire" \/ result[p] = "RecursionLimit"

\* a direct call of _send_packet by caller 1
Raw(p) == kind[p] = "raw"

\* C11: the header byte of a written frame has its top bit set and carries the
\* three low bits of a unicast recipient, sender 0; broadcast gives 0x88 and no
\* unicast recipient does.
C11_HeaderByte ==
    \A i \in 1..Len(wire) :
        LET h == wire[i].pkt[1]
        IN  Raw(1) =>
                /\ h \in 128..255
                /\ rcpt[1] = -1 => h = 136
                /\ rcpt[1] # -1 => /\ h \in 128..135
                                   /\ \E q \in -1..2 : rcpt[1] = 8 * q + (h - 128)

C11_Witness ==
    /\ Raw(1) /\ rcpt[1] = 8
    /\ wire # <<>> /\ wire[1].pkt[1] = 128

\* C12: every frame written to the transport is 3 to 16 bytes long; data that
\* is not 1 to 14 bytes long is refused and nothing is written.
C12_FrameLengthBounded ==
    \A i \in 1..Len(wire) : Len(wire[i].pkt) \in 3..16

\* the data a round trip is claimed for: 1 to 14 bytes, none of them 0xFF
ValidPayload(d) == Len(d) \in 1..14 /\ \A i \in 1..Len(d) : d[i] # Terminator

\* C13: for sender 0, a recipient in 0..7 and 1 to 14 data bytes without 0xFF,
\* the frame written, read back and validated yields the same sender, recipient
\* and data.
C13_RoundTrip ==
    (Raw(1) /\ pc[1] = "done" /\ writes[1] = 1 /\ rcpt[1] \in 0..7 /\ ValidPayload(data[1])) =>
        /\ reply[1] # None
        /\ Parse(reply[1]) = [sender |-> 0, recipient |-> rcpt[1], payload |-> data[1]]

C13_Witness ==
    /\ Raw(1) /\ pc[1] = "done" /\ writes[1] = 1 /\ rcpt[1] = 7
    /\ Len(data[1]) = 14 /\ ValidPayload(data[1])
    /\ reply[1] = <<135>> \o data[1] \o <<255>>

\* the frame the first read of an exchange is about to take
NextRaw == Bytes(recv_packet(line).packet)
Unterminated(raw) == raw # <<>> /\ raw[Len(raw)] # Terminator
\* caller p takes the first read of an exchange in this step
FirstRead(p) == port /\ pc[p] = "recv" /\ reads'[p] = reads[p] + 1

\* C14: a frame read whose last byte is not 0xFF is not passed on: the exchange
\* yields no reply, and neither an ack nor a completion nor an error reply is
\* acted on.
C14_UnterminatedIsNoReply ==
    [][\A p \in Callers :
          (FirstRead(p) /\ Unterminated(NextRaw)) =>
              /\ reply'[p] = None
              /\ Last(hist'[p]) = "NoReply"
              /\ pc'[p] # "recv2"
              /\ result'[p] \notin {"True", "False", "value"}]_vars

C14_Witness ==
    /\ writes[1] >= 1 /\ reads[1] >= 1
    /\ hist[1] # <<>> /\ Last(hist[1]) = "NoReply"
    /\ reply[1] = None /\ Len(line) = 1

\* the bytes one read took off the line
Taken == SubSeq(line, 1, Len(line) - Len(line'))

\* C15: a read takes bytes off the front of the line one at a time up to the
\* first 0xFF or the 16th byte: at most 16 bytes, 0xFF only as the last of
\* them, and nothing behind the first 0xFF.
C15_ReadStopsAtTerminator ==
    [][(port /\ line' # line /\ Len(line') < Len(line)) =>
          /\ line = Taken \o line'
          /\ Len(Taken) <= 16
          /\ \A i \in 1..(Len(Taken) - 1) : Taken[i].b # 255
          /\ Len(Taken) < 16 => Taken[Len(Taken)].b = 255]_vars

C15_Witness ==
    /\ Raw(1) /\ pc[1] = "done" /\ reads[1] = 1
    /\ Len(reply[1]) = 3 /\ Len(line) = 5

\* a caller waiting in a read of the open port
Reading(p) == port /\ pc[p] \in {"recv", "recv2"}

\* C16: every read of a frame returns in the end, also when the camera sends
\* nothing.
C16_ReadReturns ==
    \A p \in Callers : Reading(p) ~> ~Reading(p)

\* C17: a write first discards everything buffered on the line, however many
\* stale frames that is, so that the next read belongs to the request written.
C17_WriteDiscardsAllStale ==
    [][\A p \in Callers :
          (port /\ pc[p] = "write" /\ pc'[p] = "recv") => line' = <<>>]_vars

\* C18: open takes the lock and gives it back whether or not the device could
\* be opened; when it could not, the connection stays unset.
C18_OpenReleasesLock ==
    [][\A ok \in BOOLEAN :
          Open(ok) => /\ mutex = 0 /\ mutex' = 0
                      /\ (~port /\ ~ok) => ~port'
                      /\ (~port /\ ok) => port']_vars

C18_Witness ==
    lastOpen = "failed" /\ ~port /\ mutex = 0

\* C19: without a connection every command call, the second and later ones
\* too, writes nothing and ends without blocking.
C19_NoConnectionNoBlock ==
    \A p \in Callers :
        (kind[p] = "cmd" /\ ~port /\ InCall(p)) =>
            /\ writes[p] = 0
            /\ ENABLED Step(p)

\* C20: a query for an empty name or a name outside the catalog returns False
\* at once, with no lock taken and nothing written or read; pan and tilt are
\* asked for as pan_tilt.
C20_UnknownQueryReturnsFalse ==
    [][\A p \in Callers, function \in Functions :
          Query(p, function) =>
              IF function \in {"power", "pan", "tilt", "pan_tilt"}
              THEN /\ pc'[p] = "acquire"
                   /\ function \in {"pan", "tilt"} => data'[p] = <<9, 6, 18>>
              ELSE /\ pc'[p] = "done" /\ result'[p] = "False"
                   /\ mutex' = mutex /\ wire' = wire /\ line' = line
                   /\ writes'[p] = 0 /\ reads'[p] = 0]_vars

C20_Witness ==
    /\ kind[1] = "query" /\ pc[1] = "done" /\ result[1] = "False"
    /\ hist[1] = <<>> /\ writes[1] = 0 /\ reads[1] = 0
    /\ port /\ mutex = 0

\* caller p's query has ended with a completion of n payload bytes decoded
Decoded(p, n) ==
    kind[p] = "query" /\ pc[p] = "done" /\ result[p] = "value" /\ Len(value[p]) = n

C22_EnumeratedLabel ==
    (Decoded(1, 1) /\ fn[1] \in DOMAIN answers) =>
        LET code == value[1][1]
        IN  /\ code \in DOMAIN answers[fn[1]] =>
                    decoded[1] = LabelValue(answers[fn[1]][code])
            /\ code \notin DOMAIN answers[fn[1]] => decoded[1] = IntValue(code)
            /\ (fn[1] = "WB" /\ code = 2) => decoded[1].s = "outdoor"

C22_Witness ==
    Decoded(1, 1) /\ fn[1] = "WB" /\ value[1] = <<2>> /\ decoded[1] = LabelValue("outdoor")

\* C23: for color_gain the fourth group v in 0..14 is rescaled from 0..14 to
\* 60..200 and followed by '%': 0E gives 200%, 00 gives 60%.
C23_GainPercent ==
    (Decoded(1, 4) /\ fn[1] = "color_gain" /\ value[1][4] \in 0..14) =>
        /\ decoded[1] = TextValue(60 + 10 * value[1][4], "%")
        /\ value[1][4] = 14 => decoded[1].n = 200
        /\ value[1][4] = 0 => decoded[1].n = 60

C23_Witness ==
    /\ Decoded(1, 4) /\ fn[1] = "color_gain" /\ value[1] = <<0, 0, 0, 14>>
    /\ decoded[1] = TextValue(200, "%")

\* C24: for color_hue the fourth group is rescaled to degrees around zero: the
\* middle code 7 gives 0 degrees, not a value of the 60..200 range of the gain.
C24_HueSymmetric ==
    (Decoded(1, 4) /\ fn[1] = "color_hue" /\ value[1][4] = 7) =>
        decoded[1] = TextValue(0, "deg")

\* C25: _send_packet gives the lock back on every path before it returns, so
\* the lock is free whenever no call is under way.
C25_LockFreeBetweenCalls ==
    (\A p \in Callers : ~InCall(p)) => mutex = 0

\* C26: a command sent through _cmd_cam_alt reports what the handshake gave:
\* true after Ack(n), Completion(n), false after SyntaxError or NotExecutable.
C26_AltReportsOutcome ==
    \A p \in Callers :
        (kind[p] = "alt" /\ pc[p] = "done" /\ hist[p] # <<>>) =>
            /\ hist[p] \in {<<"Ack1", "Completion1">>, <<"Ack2", "Completion2">>} =>
                    result[p] = "True"
            /\ hist[p][1] \in ErrorKinds => result[p] = "False"

\* the frame a write step puts on the wire
Written == wire'[Len(wire')].pkt
\* caller p writes its frame in this step
Writes(p) == port /\ pc[p] = "write" /\ pc'[p] = "recv"

\* C27: the speeds are 5 and 5 until set; a movement command carries the pan
\* and tilt speed stored when it is called; only the two setters change them.
C27_MovementCarriesSpeeds ==
    /\ pan_speed = 5 /\ tilt_speed = 5
    /\ [][/\ \A p \in Callers, lr \in Directions, ud \in Directions :
               CmdPtd(p, lr, ud) =>
                   data'[p] = <<1, 6, 1, pan_speed, tilt_speed, lr, ud>>
          /\ \A p \in Callers :
               (Writes(p) /\ kind[p] = "alt") => Written = <<129>> \o data[p] \o <<255>>
          /\ (pan_speed' # pan_speed \/ tilt_speed' # tilt_speed) =>
               \E speed \in Speeds : SetPanSpeed(speed) \/ SetTiltSpeed(speed)]_vars

C27_Witness ==
    /\ pan_speed = 24 /\ tilt_speed = 1
    /\ \E i \in 1..Len(wire) : wire[i].pkt = <<129, 1, 6, 1, 24, 1, 3, 1, 255>>

\* C28: every frame a command or a query writes starts with 0x81 and ends in
\* 0xFF, and every transmission of a query, the repeated ones too, is 0x81,
\* 0x09, the code of the property, 0xFF.
C28_FramesAddressedAndRepeated ==
    [][\A p \in Callers :
          /\ (Writes(p) /\ kind[p] \in {"cmd", "query"}) =>
                 /\ Written[1] = 129
                 /\ Written[Len(Written)] = 255
                 /\ kind[p] = "cmd" => Written = <<129, 1, 4>> \o SubSeq(data[p], 3, Len(data[p])) \o <<255>>
                 /\ kind[p] = "query" =>
                        Written = <<129, 9>> \o queries[IF fn[p] \in {"pan", "tilt"}
                                                        THEN "pan_tilt" ELSE fn[p]] \o <<255>>
          /\ (pc[p] \notin {"idle", "done"}) => fn'[p] = fn[p]]_vars

C28_Witness ==
    /\ kind[1] = "query" /\ writes[1] = 3 /\ fn[1] = "power"
    /\ hist[1] = <<"BufferFull", "BufferFull">>
    /\ wire # <<>> /\ wire[Len(wire)].pkt = <<129, 9, 4, 0, 255>>

====
